---- MODULE Spec2Model ----
(***************************************************************************)
(* A model of better_array's Array<T> (src/src/array.rs): the allocation   *)
(* routine, the bounds-checked accessors over raw memory, the value        *)
(* semantics (Copy, Clone, PartialEq, From, IntoIterator) and ArrayIter.   *)
(*                                                                         *)
(* Memory is a sequence of allocations in the order alloc_zeroed returned  *)
(* them; an allocation is the sequence of its elements.  The crate never   *)
(* calls dealloc and Array has no Drop impl, so an allocation, once made,  *)
(* stays in `heap` for the rest of the run.  A pointer is an index into    *)
(* `heap`.  An access one element past the end of an allocation is         *)
(* undefined behaviour: a read yields any value, a write either changes no *)
(* element of any array (it lands in padding or allocator metadata) or     *)
(* overwrites the first element of another allocation (the allocator       *)
(* placed it right behind).                                                *)
(***************************************************************************)
EXTENDS Naturals, Sequences, FiniteSets, Bags, TLC

VARIABLES heap, freed, arrays, iters, ret

vars == <<heap, freed, arrays, iters, ret>>

\* ---- bounds of the model ------------------------------------------------
\* usize is UsizeBits wide (a scaled-down address space).
UsizeBits == 4
\* The platform's largest block, in bytes: the largest capacity of an
\* Array<u8>, and the largest capacity the heap machine (Spec) asks for.
MaxCap == 2
\* Elements are 0..MaxVal; 0 is the all-zero-bytes value.
MaxVal == 1
\* alloc_zeroed returns null once MaxAllocs allocations exist.
MaxAllocs == 4
\* At most MaxLive Array and ArrayIter values are alive at once.
MaxLive == 2
\* The caller constructs an Array only while fewer than MaxBuilt allocations
\* exist (the clones eq makes are not the caller's).
MaxBuilt == 3

Values == 0..MaxVal

RECURSIVE Pow2(_)
Pow2(n) == IF n = 0 THEN 1 ELSE 2 * Pow2(n - 1)

UsizeMax == Pow2(UsizeBits) - 1
IsizeMax == Pow2(UsizeBits - 1) - 1

\* ---- element types: size_of::<T>() and align_of::<T>() -------------------
Unit == [size |-> 0, align |-> 1]
U8 == [size |-> 1, align |-> 1]
U16 == [size |-> 2, align |-> 2]
I32 == [size |-> 4, align |-> 4]
Usize == [size |-> 8, align |-> 8]
ElemTypes == {Unit, U8, U16, I32, Usize}

\* ---- error messages -------------------------------------------------------
ErrZeroSize == "Cannot allocate zero sized value"
ErrOverflow == "Overflow when getting layout size"
ErrLayout == "Failed to create layout"
ErrNull == "Failed to allocate memory for the Array"
ErrRange == "index out of range"
NoErr == ""

\* ---- the result of the last call ------------------------------------------
\* op: the call; ok/err: Ok or Err(msg) (Some or None for next); out: the
\* value returned; ptr, cap: the Array the call was made on (for a
\* constructor, the Array it returned, or the capacity it was asked for);
\* idx, val: the arguments (for new, val is size_of::<T>()).
Ret(op, ok, err, out, ptr, cap, idx, val) ==
    [op |-> op, ok |-> ok, err |-> err, out |-> out,
     ptr |-> ptr, cap |-> cap, idx |-> idx, val |-> val]

Running == ret.op # "panic"

Panic == Ret("panic", FALSE, NoErr, 0, 0, 0, 0, 0)

Handle(p, c) == [ptr |-> p, cap |-> c]

Cursor(p, c, i) == [ptr |-> p, cap |-> c, idx |-> i]

One(x) == SetToBag({x})

Live == BagCardinality(arrays) + BagCardinality(iters)

\* The caller may construct one more Array.
Room == Live < MaxLive /\ Len(heap) < MaxBuilt

\* ---- alloc ------------------------------------------------------------------
\* A multiplication that wraps instead of reporting the overflow.
wrapping_mul(a, b) == (a * b) % (UsizeMax + 1)

\* usize::checked_mul: None (here UsizeMax + 1) when the product does not fit.
checked_mul(a, b) == IF a * b > UsizeMax THEN UsizeMax + 1 ELSE a * b

\* Layout::from_size_align: the size rounded up to align must fit in isize.
from_size_align(size, align) == size + (align - 1) <= IsizeMax

\* alloc_zeroed(layout) with `used` allocations already made: null when the
\* platform has no block left or none of `size` bytes.
alloc_zeroed(used, size) == used < MaxAllocs /\ size <= MaxCap

\* alloc::<T>(len) with `used` allocations already made: NoErr, or the message.
alloc(T, len, used) ==
    LET size == checked_mul(T.size, len)
    IN  IF size = 0 THEN ErrZeroSize
        ELSE IF size > UsizeMax THEN ErrOverflow
        ELSE IF ~from_size_align(size, T.align) THEN ErrLayout
        ELSE IF ~alloc_zeroed(used, size) THEN ErrNull
        ELSE NoErr

\* Memory that is not zeroed (alloc in place of alloc_zeroed).
Unzeroed(len) == [i \in 1..len |-> MaxVal]

\* The memory alloc_zeroed returns for len elements.
Zeroed(len) == [i \in 1..len |-> 0]

\* ---- raw memory -------------------------------------------------------------
\* ptr::read(p.add(idx)): the values the read can yield.
read(mem, p, idx) ==
    IF idx < Len(mem[p]) THEN {mem[p][idx + 1]} ELSE Values

\* A write that stores nothing.
write_nothing(mem, p, idx, v) == {mem}

\* A write that runs over the whole allocation (write_bytes(v, cap)).
write_all(mem, p, idx, v) == {[mem EXCEPT ![p] = [i \in DOMAIN @ |-> v]]}

\* ptr::write(p.add(idx), v): the memories the write can leave.
write(mem, p, idx, v) ==
    IF idx < Len(mem[p])
    THEN {[mem EXCEPT ![p][idx + 1] = v]}
    ELSE {mem} \cup {[mem EXCEPT ![q][1] = v] : q \in (DOMAIN mem) \ {p}}

\* Array::copy_from: self.cap elements starting at src.
copy_from(mem, cap, src) == [i \in 1..cap |-> mem[src][i]]

\* Array::in_bounds: TRUE when it returns Some(error).
in_bounds(h, idx) == idx > h.cap

\* Array::get on memory mem: the results the call can have.
get(mem, h, idx) ==
    IF in_bounds(h, idx)
    THEN {[ok |-> FALSE, out |-> 0]}
    ELSE {[ok |-> TRUE, out |-> x] : x \in read(mem, h.ptr, idx)}

\* A next that reads at the moved cursor (get(idx) in place of get(idx - 1)).
next_skips(mem, it) ==
    IF it.idx = it.cap
    THEN {[some |-> FALSE, out |-> 0, it |-> it]}
    ELSE LET moved == Cursor(it.ptr, it.cap, it.idx + 1)
         IN  {[some |-> TRUE, out |-> r.out, it |-> moved] :
                 r \in {g \in get(mem, Handle(it.ptr, it.cap), moved.idx) : g.ok}}

\* ArrayIter::next on memory mem: None at the end, else the cursor moves on
\* and get(idx - 1) is unwrapped.
next(mem, it) ==
    IF it.idx = it.cap
    THEN {[some |-> FALSE, out |-> 0, it |-> it]}
    ELSE LET moved == Cursor(it.ptr, it.cap, it.idx + 1)
         IN  {[some |-> TRUE, out |-> r.out, it |-> moved] :
                 r \in {g \in get(mem, Handle(it.ptr, it.cap), moved.idx - 1) : g.ok}}

\* ---- state ------------------------------------------------------------------
Init ==
    /\ heap = <<>>
    /\ freed = EmptyBag
    /\ arrays = EmptyBag
    /\ iters = EmptyBag
    /\ ret = Ret("init", TRUE, NoErr, 0, 0, 0, 0, 0)

\* Array::<T>::new(len)
New(T, len) ==
    /\ Running
    /\ LET e == alloc(T, len, Len(heap))
           p == Len(heap) + 1
       IN  IF e = NoErr
           THEN /\ Room
                /\ heap' = Append(heap, Zeroed(len))
                /\ arrays' = arrays (+) One(Handle(p, len))
                /\ ret' = Ret("new", TRUE, NoErr, 0, p, len, 0, T.size)
           ELSE /\ ret' = Ret("new", FALSE, e, 0, 0, len, 0, T.size)
                /\ UNCHANGED <<heap, arrays>>
    /\ UNCHANGED <<freed, iters>>

\* The element type of the arrays of the heap machine (Array::<u8>).
ElemT == U8

\* impl Copy for Array<T>: `let b = a;` leaves a usable and makes b.
Copy(h) ==
    /\ Running
    /\ Live < MaxLive
    /\ arrays' = arrays (+) One(h)
    /\ ret' = Ret("copy", TRUE, NoErr, 0, h.ptr, h.cap, 0, 0)
    /\ UNCHANGED <<heap, freed, iters>>

\* The memory a clone of h gets: h.cap elements copied from h.ptr.
CloneData(mem, h) == copy_from(mem, h.cap, h.ptr)

\* impl Clone for Array<T>: clone panics when new fails.
Clone(h) ==
    /\ Running
    /\ LET e == alloc(ElemT, h.cap, Len(heap))
           p == Len(heap) + 1
       IN  IF e = NoErr
           THEN /\ Room
                /\ heap' = Append(heap, CloneData(heap, h))
                /\ arrays' = arrays (+) One(Handle(p, h.cap))
                /\ ret' = Ret("clone", TRUE, NoErr, 0, p, h.cap, 0, h.ptr)
           ELSE /\ ret' = Panic
                /\ UNCHANGED <<heap, arrays>>
    /\ UNCHANGED <<freed, iters>>

\* impl From<U: Iterator> for Array<T>: v is the collected iterator;
\* new(v.len()).expect("") panics on an empty iterator or a failed alloc.
From(v) ==
    /\ Running
    /\ LET e == alloc(ElemT, Len(v), Len(heap))
           p == Len(heap) + 1
       IN  IF e = NoErr
           THEN /\ Room
                /\ heap' = Append(heap, [i \in 1..Len(v) |-> v[i]])
                /\ arrays' = arrays (+) One(Handle(p, Len(v)))
                /\ ret' = Ret("from", TRUE, NoErr, 0, p, Len(v), 0, 0)
           ELSE /\ ret' = Panic
                /\ UNCHANGED <<heap, arrays>>
    /\ UNCHANGED <<freed, iters>>

\* Array::from_raw(src.as_ptr(), len), the caller keeping its side of the
\* contract: src holds at least len elements.
FromRaw(src, len) ==
    /\ Running
    /\ len <= src.cap
    /\ LET e == alloc(ElemT, len, Len(heap))
           p == Len(heap) + 1
       IN  IF e = NoErr
           THEN /\ Room
                /\ heap' = Append(heap, copy_from(heap, len, src.ptr))
                /\ arrays' = arrays (+) One(Handle(p, len))
                /\ ret' = Ret("from_raw", TRUE, NoErr, 0, p, len, 0, src.ptr)
           ELSE /\ ret' = Ret("from_raw", FALSE, e, 0, 0, len, 0, src.ptr)
                /\ UNCHANGED <<heap, arrays>>
    /\ UNCHANGED <<freed, iters>>

\* Array::fill
Fill(h, with) ==
    /\ Running
    /\ heap' = [heap EXCEPT ![h.ptr] =
                   [i \in DOMAIN @ |-> IF i - 1 < h.cap THEN with ELSE @[i]]]
    /\ ret' = Ret("fill", TRUE, NoErr, 0, h.ptr, h.cap, 0, with)
    /\ UNCHANGED <<freed, arrays, iters>>

\* Array::get
Get(h, idx) ==
    /\ Running
    /\ IF in_bounds(h, idx)
       THEN ret' = Ret("get", FALSE, ErrRange, 0, h.ptr, h.cap, idx, 0)
       ELSE \E r \in get(heap, h, idx) :
                ret' = Ret("get", TRUE, NoErr, r.out, h.ptr, h.cap, idx, 0)
    /\ UNCHANGED <<heap, freed, arrays, iters>>

\* Array::set
Set(h, idx, val) ==
    /\ Running
    /\ IF in_bounds(h, idx)
       THEN /\ ret' = Ret("set", FALSE, ErrRange, 0, h.ptr, h.cap, idx, val)
            /\ UNCHANGED heap
       ELSE /\ heap' \in write(heap, h.ptr, idx, val)
            /\ ret' = Ret("set", TRUE, NoErr, 0, h.ptr, h.cap, idx, val)
    /\ UNCHANGED <<freed, arrays, iters>>

\* Array::pop: read the element, then addr.write_bytes(0, 1).
Pop(h, idx) ==
    /\ Running
    /\ IF in_bounds(h, idx)
       THEN /\ ret' = Ret("pop", FALSE, ErrRange, 0, h.ptr, h.cap, idx, 0)
            /\ UNCHANGED heap
       ELSE /\ \E x \in read(heap, h.ptr, idx) :
                   ret' = Ret("pop", TRUE, NoErr, x, h.ptr, h.cap, idx, 0)
            /\ heap' \in write(heap, h.ptr, idx, 0)
    /\ UNCHANGED <<freed, arrays, iters>>

\* impl IntoIterator for Array<T>: ArrayIter::new takes the Array over.
IntoIter(h) ==
    /\ Running
    /\ arrays' = arrays (-) One(h)
    /\ iters' = iters (+) One(Cursor(h.ptr, h.cap, 0))
    /\ ret' = Ret("into_iter", TRUE, NoErr, 0, h.ptr, h.cap, 0, 0)
    /\ UNCHANGED <<heap, freed>>

\* ArrayIter::next; ret.idx is the cursor before the call.
IterNext(it) ==
    /\ Running
    /\ \E r \in next(heap, it) :
          /\ iters' = (iters (-) One(it)) (+) One(r.it)
          /\ ret' = Ret("next", r.some, NoErr, r.out, it.ptr, it.cap, it.idx, 0)
    /\ UNCHANGED <<heap, freed, arrays>>

\* An Array goes out of scope (or drop(array)): Array has no Drop impl, so
\* nothing is released.
DropArray(h) ==
    /\ Running
    /\ arrays' = arrays (-) One(h)
    /\ ret' = Ret("drop", TRUE, NoErr, 0, h.ptr, h.cap, 0, 0)
    /\ UNCHANGED <<heap, freed, iters>>

\* An ArrayIter goes out of scope: the same, for the Array it holds.
DropIter(it) ==
    /\ Running
    /\ iters' = iters (-) One(it)
    /\ ret' = Ret("drop_iter", TRUE, NoErr, 0, it.ptr, it.cap, it.idx, 0)
    /\ UNCHANGED <<heap, freed, arrays>>

\* An eq that also wants the two iterators to end together.
RECURSIVE zip_eq_same_len(_, _, _)
zip_eq_same_len(mem, s, o) ==
    LET a == CHOOSE r \in next(mem, s) : TRUE
        b == CHOOSE r \in next(mem, o) : TRUE
    IN  IF ~a.some THEN ~b.some
        ELSE IF ~b.some THEN FALSE
        ELSE IF a.out # b.out THEN FALSE
        ELSE zip_eq_same_len(mem, a.it, b.it)

\* The loop of eq over the zipped iterators: zip asks s, then o, and stops at
\* the first None.
RECURSIVE zip_eq(_, _, _)
zip_eq(mem, s, o) ==
    LET a == CHOOSE r \in next(mem, s) : TRUE
        b == CHOOSE r \in next(mem, o) : TRUE
    IN  IF ~a.some THEN TRUE
        ELSE IF ~b.some THEN TRUE
        ELSE IF a.out # b.out THEN FALSE
        ELSE zip_eq(mem, a.it, b.it)

\* impl PartialEq for Array<T>: self.clone() and other.clone() are made,
\* turned into iterators and left unreleased; a failed clone panics.
Eq(self, other) ==
    /\ Running
    /\ LET e1 == alloc(ElemT, self.cap, Len(heap))
           p1 == Len(heap) + 1
           mem1 == Append(heap, CloneData(heap, self))
           e2 == alloc(ElemT, other.cap, Len(mem1))
           p2 == Len(mem1) + 1
           mem2 == Append(mem1, CloneData(mem1, other))
       IN  IF e1 # NoErr
           THEN /\ ret' = Panic
                /\ UNCHANGED heap
           ELSE IF e2 # NoErr
           THEN /\ ret' = Panic
                /\ heap' = mem1
           ELSE /\ heap' = mem2
                /\ ret' = Ret("eq", zip_eq(mem2, Cursor(p1, self.cap, 0),
                                                 Cursor(p2, other.cap, 0)),
                              NoErr, 0, self.ptr, self.cap, 0, other.ptr)
    /\ UNCHANGED <<freed, arrays, iters>>

\* ---- the heap machine: arrays of ElemT ---------------------------------------
Seqs == UNION {[1..n -> Values] : n \in 0..MaxCap}

Next ==
    \/ \E len \in 0..MaxCap : New(ElemT, len)
    \/ \E v \in Seqs : From(v)
    \/ \E h \in BagToSet(arrays) : Copy(h)
    \/ \E h \in BagToSet(arrays) : Clone(h)
    \/ \E h \in BagToSet(arrays), len \in 0..MaxCap : FromRaw(h, len)
    \/ \E h \in BagToSet(arrays), v \in Values : Fill(h, v)
    \/ \E h \in BagToSet(arrays) : \E idx \in 0..(h.cap + 1) : Get(h, idx)
    \/ \E h \in BagToSet(arrays), v \in Values :
          \E idx \in 0..(h.cap + 1) : Set(h, idx, v)
    \/ \E h \in BagToSet(arrays) : \E idx \in 0..(h.cap + 1) : Pop(h, idx)
    \/ \E h \in BagToSet(arrays), o \in BagToSet(arrays) : Eq(h, o)
    \/ \E h \in BagToSet(arrays) : IntoIter(h)
    \/ \E h \in BagToSet(arrays) : DropArray(h)
    \/ \E it \in BagToSet(iters) : IterNext(it)
    \/ \E it \in BagToSet(iters) : DropIter(it)

Spec == Init /\ [][Next]_vars

\* ---- new::<T>(len) for every element type and every usize length -------------
NextAlloc == \E T \in ElemTypes, len \in 0..UsizeMax : New(T, len)

SpecAlloc == Init /\ [][NextAlloc]_vars

\* ---- ownership bookkeeping -----------------------------------------------------
\* The number of live Array and ArrayIter values that hold pointer p.
OwnersOf(p) ==
    BagCardinality([h \in {x \in BagToSet(arrays) : x.ptr = p} |-> arrays[h]])
    + BagCardinality([it \in {x \in BagToSet(iters) : x.ptr = p} |-> iters[it]])

\* How often allocation p was released with the layout it was allocated with.
Released(p) == CopiesIn(Handle(p, Len(heap[p])), freed)

Min(a, b) == IF a < b THEN a ELSE b

C2_SingleOwner == \A p \in DOMAIN heap : OwnersOf(p) <= 1

\* ---- C3 ------------------------------------------------------------------------
\* C3: an allocation is released exactly once, with its own layout, when its
\* owner is gone, and not before: never twice, never left unreleased.
C3_ReleasedExactlyOnce ==
    \A p \in DOMAIN heap : Released(p) = (IF OwnersOf(p) = 0 THEN 1 ELSE 0)

\* ---- C4 ------------------------------------------------------------------------
\* C4: new::<T>(len) returns the zero-size error when size_of::<T>() * len is 0
\* and the overflow error when the product does not fit in usize; in both
\* cases it makes no Array and no allocation.
C4_DegenerateSizesRejected ==
    [][ret'.op = "new" =>
          /\ (ret'.val * ret'.cap = 0 =>
                 /\ ~ret'.ok /\ ret'.err = ErrZeroSize
                 /\ arrays' = arrays /\ heap' = heap)
          /\ (ret'.val * ret'.cap > UsizeMax =>
                 /\ ~ret'.ok /\ ret'.err = ErrOverflow
                 /\ arrays' = arrays /\ heap' = heap)]_vars

C4_Witness ==
    /\ ret.op = "new" /\ ret.err = ErrOverflow
    /\ ret.val * ret.cap > UsizeMax
    /\ arrays # EmptyBag

\* ---- C5 ------------------------------------------------------------------------
\* C5: right after a successful new(N) the Array has capacity N and get(i)
\* returns 0 for every i < N.
C5_NewIsZeroed ==
    (ret.op = "new" /\ ret.ok) =>
        /\ BagIn(Handle(ret.ptr, ret.cap), arrays)
        /\ Len(heap[ret.ptr]) = ret.cap
        /\ \A i \in 0..(ret.cap - 1) :
              get(heap, Handle(ret.ptr, ret.cap), i) = {[ok |-> TRUE, out |-> 0]}

C5_Witness ==
    /\ ret.op = "new" /\ ret.ok /\ ret.cap >= 2
    /\ \E p \in DOMAIN heap : p # ret.ptr /\ \E i \in DOMAIN heap[p] : heap[p][i] # 0

\* ---- C6 ------------------------------------------------------------------------
\* C6: set(idx, v) with idx < cap succeeds and a get(idx) right after it
\* returns v; a get changes no slot and returns what the slot holds.
C6_SetGetRoundTrip ==
    [][/\ (ret'.op = "set" /\ ret'.idx < ret'.cap) =>
              /\ ret'.ok
              /\ get(heap', Handle(ret'.ptr, ret'.cap), ret'.idx)
                    = {[ok |-> TRUE, out |-> ret'.val]}
       /\ (ret'.op = "get") => heap' = heap
       /\ (ret'.op = "get" /\ ret'.idx < ret'.cap) =>
              /\ ret'.ok
              /\ ret'.out = heap[ret'.ptr][ret'.idx + 1]
       /\ (/\ ret.op = "set" /\ ret.ok /\ ret.idx < ret.cap
           /\ ret'.op = "get" /\ ret'.ptr = ret.ptr /\ ret'.idx = ret.idx) =>
              ret'.out = ret.val]_vars

C6_Witness ==
    /\ ret.op = "set" /\ ret.ok /\ ret.idx < ret.cap /\ ret.val # 0
    /\ ret.idx > 0
    /\ get(heap, Handle(ret.ptr, ret.cap), ret.idx) = {[ok |-> TRUE, out |-> ret.val]}

\* ---- C7 ------------------------------------------------------------------------
\* C7: pop(idx) with idx < cap returns the value the slot held, leaves 0 in it,
\* keeps the capacity and leaves every other slot of the array as it was.
C7_PopZeroesSlot ==
    [][(ret'.op = "pop" /\ ret'.idx < ret'.cap) =>
          /\ ret'.ok
          /\ ret'.out = heap[ret'.ptr][ret'.idx + 1]
          /\ get(heap', Handle(ret'.ptr, ret'.cap), ret'.idx)
                = {[ok |-> TRUE, out |-> 0]}
          /\ arrays' = arrays
          /\ Len(heap'[ret'.ptr]) = Len(heap[ret'.ptr])
          /\ \A j \in 0..(ret'.cap - 1) :
                j # ret'.idx => heap'[ret'.ptr][j + 1] = heap[ret'.ptr][j + 1]]_vars

C7_Witness ==
    /\ ret.op = "pop" /\ ret.ok /\ ret.idx < ret.cap /\ ret.out # 0
    /\ heap[ret.ptr][ret.idx + 1] = 0
    /\ \E j \in DOMAIN heap[ret.ptr] : heap[ret.ptr][j] # 0

\* ---- C8 ------------------------------------------------------------------------
\* C8: B = A.clone() has A's capacity and A's values in a new allocation, and
\* a set, fill or pop on B changes no slot of A, nor one on A a slot of B.
C8_CloneIndependence ==
    [][/\ (ret'.op = "clone") =>
              /\ ret'.ptr \notin DOMAIN heap
              /\ ret'.cap = Len(heap[ret'.val])
              /\ heap'[ret'.ptr] = heap[ret'.val]
              /\ heap'[ret'.val] = heap[ret'.val]
       /\ (ret.op = "clone" /\ ret'.op \in {"set", "fill", "pop"}) =>
              /\ ret'.ptr = ret.ptr => heap'[ret.val] = heap[ret.val]
              /\ ret'.ptr = ret.val => heap'[ret.ptr] = heap[ret.ptr]]_vars

\* ---- C9 ------------------------------------------------------------------------
\* C9: an ArrayIter starts at cursor 0; next yields the slot under the cursor
\* and moves the cursor up by one while it is below the capacity N, reading
\* only slots in [0, N); at cursor N it returns None and stays there; nothing
\* else moves a cursor.
C9_IterationInOrder ==
    /\ [](\A it \in BagToSet(iters) : it.idx <= it.cap)
    /\ [][/\ (ret'.op = "into_iter") =>
                 iters' = iters (+) One(Cursor(ret'.ptr, ret'.cap, 0))
          /\ (ret'.op = "next") =>
                 LET it == Cursor(ret'.ptr, ret'.cap, ret'.idx)
                 IN  /\ BagIn(it, iters)
                     /\ heap' = heap
                     /\ IF it.idx < it.cap
                        THEN /\ ret'.ok
                             /\ ret'.out = heap[it.ptr][it.idx + 1]
                             /\ iters' = (iters (-) One(it))
                                   (+) One(Cursor(it.ptr, it.cap, it.idx + 1))
                        ELSE /\ ~ret'.ok
                             /\ it.idx = it.cap
                             /\ iters' = iters
          /\ (ret'.op \notin {"into_iter", "next", "drop_iter"}) =>
                 iters' = iters]_vars

C9_Witness ==
    /\ ret.op = "next" /\ ~ret.ok /\ ret.idx = ret.cap /\ ret.cap >= 2
    /\ BagIn(Cursor(ret.ptr, ret.cap, ret.cap), iters)
    /\ heap[ret.ptr][ret.cap] # 0

\* ---- C10 -----------------------------------------------------------------------
\* C10: a == b is TRUE exactly when a and b agree at every position below the
\* smaller of the two capacities, whatever the capacities; the comparison
\* changes no slot of a or b and no Array.
C10_EqOverCommonPrefix ==
    [][(ret'.op = "eq") =>
          /\ ret'.ok = (\A i \in 1..Min(Len(heap[ret'.ptr]), Len(heap[ret'.val])) :
                           heap[ret'.ptr][i] = heap[ret'.val][i])
          /\ \A p \in DOMAIN heap : heap'[p] = heap[p]
          /\ arrays' = arrays]_vars

C10_Witness ==
    /\ ret.op = "eq" /\ ret.ok
    /\ Len(heap[ret.ptr]) # Len(heap[ret.val])
    /\ \E i \in DOMAIN heap[ret.ptr] : heap[ret.ptr][i] # 0

====
